---- MODULE Spec2Model ----
(***************************************************************************)
(* Model of the query builder of postgres-nullable: the parameter binder,  *)
(* the predicate compiler, the statement compilers of DatabaseClient and   *)
(* the stub connection provider (PoolStub).                                *)
(*                                                                         *)
(* A JavaScript string is a sequence of atoms (words, punctuation, " " and *)
(* "\n"), so that template literals and join() are concatenations and      *)
(* whitespace normalisation is a computation on the text.  A JavaScript    *)
(* value is a record [t |-> type, v |-> text].                             *)
(***************************************************************************)
EXTENDS Integers, Sequences, FiniteSets, TLC

\* ---------------------------------------------------------------- bounds
MaxWhere == 2
MaxValues == 2
MaxColumns == 2

\* ---------------------------------------------------------------- values
Str(s) == [t |-> "string", v |-> s]
Num(s) == [t |-> "number", v |-> s]
Null == [t |-> "null", v |-> <<>>]
Undefined == [t |-> "undefined", v |-> <<>>]

Columns == {"a", "b"}
Values == {Str(<<"x">>), Null, Undefined}
Texts == {<<"x">>}

RECURSIVE SeqsUpTo(_, _)
SeqsUpTo(S, n) ==
  IF n = 0 THEN {<<>>}
  ELSE LET shorter == SeqsUpTo(S, n - 1)
       IN  shorter \cup {Append(s, x) : s \in {q \in shorter : Len(q) = n - 1}, x \in S}

\* ---------------------------------------------------------------- strings
RECURSIVE join(_, _)
\* Array.prototype.join over an array of strings
join(parts, sep) ==
  IF Len(parts) = 0 THEN <<>>
  ELSE IF Len(parts) = 1 THEN parts[1]
  ELSE parts[1] \o sep \o join(Tail(parts), sep)

\* ---------------------------------------------------------------- binder
\* Parameters.param: push the value, return "$" followed by the new length
param(parameters, value) ==
  [parameters |-> Append(parameters, value),
   token |-> <<"$", ToString(Len(parameters) + 1)>>]

RECURSIVE mapParam(_, _)
\* values.map((v) => parameters.param(v))
mapParam(values, parameters) ==
  IF Len(values) = 0 THEN [parameters |-> parameters, tokens |-> <<>>]
  ELSE LET first == param(parameters, values[1])
           rest == mapParam(Tail(values), first.parameters)
       IN  [parameters |-> rest.parameters, tokens |-> <<first.token>> \o rest.tokens]

\* ---------------------------------------------------------------- predicates
Eq(c, v) == [kind |-> "eq", column |-> c, value |-> v, values |-> <<>>, columns |-> <<>>]
In(c, vs) == [kind |-> "in", column |-> c, value |-> Null, values |-> vs, columns |-> <<>>]
NotIn(c, vs) == [kind |-> "notIn", column |-> c, value |-> Null, values |-> vs, columns |-> <<>>]
ArrayContains(c, v) == [kind |-> "arrayContains", column |-> c, value |-> v, values |-> <<>>, columns |-> <<>>]
TextSearch(cs, s) == [kind |-> "textSearch", column |-> "", value |-> Str(s), values |-> <<>>, columns |-> cs]
Unsupported == [kind |-> "unsupported", column |-> "", value |-> Null, values |-> <<>>, columns |-> <<>>]

Predicates ==
  {Eq(c, v) : c \in Columns, v \in Values}
  \cup {In(c, vs) : c \in Columns, vs \in SeqsUpTo(Values, MaxValues)}
  \cup {NotIn(c, vs) : c \in Columns, vs \in SeqsUpTo(Values, MaxValues)}
  \cup {ArrayContains(c, v) : c \in Columns, v \in Values}
  \cup {TextSearch(cs, s) : cs \in SeqsUpTo(Columns, MaxColumns), s \in Texts}
  \cup {Unsupported}

\* The result of one applyPredicate call: the returned string (undef when the
\* call returns undefined), whether it threw, and the binder afterwards.
Fragment(text, parameters) ==
  [text |-> text, undef |-> FALSE, threw |-> FALSE, parameters |-> parameters]

\* a loose comparison with null: undefined counts as null too
eqFragment_looseNull(predicate, parameters) ==
  IF predicate.value \notin {Null, Undefined}
  THEN LET p == param(parameters, predicate.value)
       IN  Fragment(<<predicate.column, " ", "=", " ">> \o p.token, p.parameters)
  ELSE Fragment(<<predicate.column, " ", "IS", " ", "NULL">>, parameters)

\* "eq" in predicate
eqFragment(predicate, parameters) ==
  IF predicate.value # Null
  THEN LET p == param(parameters, predicate.value)
       IN  Fragment(<<predicate.column, " ", "=", " ">> \o p.token, p.parameters)
  ELSE Fragment(<<predicate.column, " ", "IS", " ", "NULL">>, parameters)

RECURSIVE mapParamOnce(_, _, _)
\* binds a value only the first time it occurs in the list
mapParamOnce(vs, seen, parameters) ==
  IF Len(vs) = 0 THEN [parameters |-> parameters, tokens |-> <<>>]
  ELSE LET earlier == {i \in 1..Len(seen) : seen[i].value = vs[1]}
           p == param(parameters, vs[1])
           token == IF earlier = {} THEN p.token
                    ELSE seen[CHOOSE i \in earlier : TRUE].token
           rest == mapParamOnce(Tail(vs),
                                Append(seen, [value |-> vs[1], token |-> token]),
                                IF earlier = {} THEN p.parameters ELSE parameters)
       IN  [parameters |-> rest.parameters, tokens |-> <<token>> \o rest.tokens]

\* a value that occurs twice shares one placeholder
inFragment_deduplicated(predicate, parameters) ==
  LET ps == mapParamOnce(predicate.values, <<>>, parameters)
  IN  Fragment(<<predicate.column, " ", "IN", " ", "(">>
                 \o join(ps.tokens, <<",", " ">>) \o <<")">>, ps.parameters)

\* "in" in predicate
inFragment(predicate, parameters) ==
  LET ps == mapParam(predicate.values, parameters)
  IN  Fragment(<<predicate.column, " ", "IN", " ", "(">>
                 \o join(ps.tokens, <<",", " ">>) \o <<")">>, ps.parameters)

\* "notIn" in predicate
notInFragment(predicate, parameters) ==
  LET ps == mapParam(predicate.values, parameters)
  IN  Fragment(<<predicate.column, " ", "NOT", " ", "IN", " ", "(">>
                 \o join(ps.tokens, <<",", " ">>) \o <<")">>, ps.parameters)

\* "arrayContains" in predicate
arrayContainsFragment(predicate, parameters) ==
  LET p == param(parameters, predicate.value)
  IN  Fragment(p.token \o <<" ", "=", " ", "ANY", "(", predicate.column, ")">>,
               p.parameters)

\* binds the pattern once for every column
textSearchFragment_boundPerColumn(predicate, parameters) ==
  LET pattern == Str(<<"%">> \o predicate.value.v \o <<"%">>)
      ps == mapParam([i \in 1..Len(predicate.columns) |-> pattern], parameters)
      conditions == [i \in 1..Len(predicate.columns) |->
                       <<predicate.columns[i], " ", "ILIKE", " ">> \o ps.tokens[i]]
  IN  IF Len(conditions) > 1
      THEN Fragment(<<"(">> \o join(conditions, <<" ", "OR", " ">>) \o <<")">>,
                    ps.parameters)
      ELSE IF Len(conditions) = 1
           THEN Fragment(conditions[1], ps.parameters)
           ELSE [text |-> <<>>, undef |-> TRUE, threw |-> FALSE,
                 parameters |-> ps.parameters]

\* "textSearch" in predicate; conditions[0] of an empty column list is
\* undefined
textSearchFragment(predicate, parameters) ==
  LET p == param(parameters, Str(<<"%">> \o predicate.value.v \o <<"%">>))
      conditions == [i \in 1..Len(predicate.columns) |->
                       <<predicate.columns[i], " ", "ILIKE", " ">> \o p.token]
  IN  IF Len(conditions) > 1
      THEN Fragment(<<"(">> \o join(conditions, <<" ", "OR", " ">>) \o <<")">>,
                    p.parameters)
      ELSE IF Len(conditions) = 1
           THEN Fragment(conditions[1], p.parameters)
           ELSE [text |-> <<>>, undef |-> TRUE, threw |-> FALSE,
                 parameters |-> p.parameters]

\* a predicate of no known shape compiles to nothing
applyPredicate_lenient(predicate, parameters) ==
  CASE predicate.kind = "eq" -> eqFragment(predicate, parameters)
    [] predicate.kind = "in" -> inFragment(predicate, parameters)
    [] predicate.kind = "notIn" -> notInFragment(predicate, parameters)
    [] predicate.kind = "arrayContains" -> arrayContainsFragment(predicate, parameters)
    [] predicate.kind = "textSearch" -> textSearchFragment(predicate, parameters)
    [] OTHER -> Fragment(<<>>, parameters)

applyPredicate(predicate, parameters) ==
  CASE predicate.kind = "eq" -> eqFragment(predicate, parameters)
    [] predicate.kind = "in" -> inFragment(predicate, parameters)
    [] predicate.kind = "notIn" -> notInFragment(predicate, parameters)
    [] predicate.kind = "arrayContains" -> arrayContainsFragment(predicate, parameters)
    [] predicate.kind = "textSearch" -> textSearchFragment(predicate, parameters)
    [] OTHER ->
         [text |-> <<>>, undef |-> FALSE, threw |-> TRUE, parameters |-> parameters]

RECURSIVE mapPredicates(_, _)
\* where.map((predicate) => applyPredicate(predicate, parameters)); a throw
\* of applyPredicate ends the map
mapPredicates(where, parameters) ==
  IF Len(where) = 0 THEN [predicates |-> <<>>, parameters |-> parameters, threw |-> FALSE]
  ELSE LET first == applyPredicate(where[1], parameters)
       IN  IF first.threw
           THEN [predicates |-> <<>>, parameters |-> first.parameters, threw |-> TRUE]
           ELSE LET rest == mapPredicates(Tail(where), first.parameters)
                IN  [predicates |-> <<first.text>> \o rest.predicates,
                     parameters |-> rest.parameters, threw |-> rest.threw]

\* if (predicates.length) query += ` WHERE ${predicates.join(" AND ")}`
\* (join renders an undefined element as the empty string)
whereClause(predicates) ==
  IF Len(predicates) # 0
  THEN <<" ", "WHERE", " ">> \o join(predicates, <<" ", "AND", " ">>)
  ELSE <<>>

\* ---------------------------------------------------------------- statements
Statement(query, params) == [query |-> query, params |-> params, threw |-> FALSE]
Thrown == [query |-> <<>>, params |-> <<>>, threw |-> TRUE]

\* the limit handed to the binder instead of written as a literal
findOneQuery_boundLimit(table, where) ==
  LET m == mapPredicates(where, <<>>)
      lim == param(m.parameters, Num(<<"1">>))
  IN  IF m.threw THEN Thrown
      ELSE Statement(<<"SELECT", " ", "*", " ", "FROM", " ", table>>
                       \o whereClause(m.predicates) \o <<" ", "LIMIT", " ">> \o lim.token,
                     lim.parameters)

findOneQuery(table, where) ==
  LET m == mapPredicates(where, <<>>)
  IN  IF m.threw THEN Thrown
      ELSE Statement(<<"SELECT", " ", "*", " ", "FROM", " ", table>>
                       \o whereClause(m.predicates) \o <<" ", "LIMIT", " ", "1">>,
                     m.parameters)

findByIdQuery(table, id) == findOneQuery(table, <<Eq("id", id)>>)

toUpperCase(direction) ==
  CASE direction = "asc" -> "ASC"
    [] direction = "desc" -> "DESC"
    [] OTHER -> direction

NoSpec == [where |-> <<>>, order |-> <<>>, offset |-> Undefined, limit |-> Undefined]

searchQuery(table, spec) ==
  LET m == mapPredicates(spec.where, <<>>)
      orders == [i \in 1..Len(spec.order) |->
                   <<spec.order[i].column, " ", toUpperCase(spec.order[i].direction)>>]
      orderBy == IF Len(spec.order) # 0
                 THEN <<" ", "ORDER", " ", "BY", " ">> \o join(orders, <<",", " ">>)
                 ELSE <<>>
      off == param(m.parameters, spec.offset)
      afterOffset == IF spec.offset # Undefined THEN off.parameters ELSE m.parameters
      offsetClause == IF spec.offset # Undefined
                      THEN <<" ", "OFFSET", " ">> \o off.token ELSE <<>>
      lim == param(afterOffset, spec.limit)
      afterLimit == IF spec.limit # Undefined THEN lim.parameters ELSE afterOffset
      limitClause == IF spec.limit # Undefined
                     THEN <<" ", "LIMIT", " ">> \o lim.token ELSE <<>>
  IN  IF m.threw THEN Thrown
      ELSE Statement(<<"SELECT", " ", "*", " ", "FROM", " ", table>>
                       \o whereClause(m.predicates) \o orderBy
                       \o offsetClause \o limitClause,
                     afterLimit)

countQuery(table, where) ==
  LET m == mapPredicates(where, <<>>)
  IN  IF m.threw THEN Thrown
      ELSE Statement(<<"SELECT", " ", "COUNT", "(", "*", ")", " ", "AS", " ", "cnt",
                       " ", "FROM", " ", table>> \o whereClause(m.predicates),
                     m.parameters)

\* A JavaScript object is the sequence of its [key, value] entries in
\* Object.entries order; keys are distinct.
Entry(k, v) == [key |-> k, value |-> v]
keys(object) == [i \in 1..Len(object) |-> object[i].key]
values(object) == [i \in 1..Len(object) |-> object[i].value]

\* the conflict clause leaves the key column out
saveQuery_keepsId(table, record) ==
  LET vs == mapParam(values(record), <<>>)
      columns == keys(record)
      others == SelectSeq(columns, LAMBDA c : c # "id")
      excluded == [i \in 1..Len(others) |->
                     <<others[i], " ", "=", " ", "EXCLUDED", ".", others[i]>>]
  IN  Statement(<<"INSERT", " ", "INTO", " ", table, " ", "(">>
                  \o join([i \in 1..Len(columns) |-> <<columns[i]>>], <<",", " ">>)
                  \o <<")", " ", "VALUES", " ", "(">>
                  \o join(vs.tokens, <<",", " ">>)
                  \o <<")", "\n", " ", " ", " ", " ", " ", " ",
                       "ON", " ", "CONFLICT", " ", "(", "id", ")", " ",
                       "DO", " ", "UPDATE", " ", "SET", " ">>
                  \o join(excluded, <<",", " ">>),
                vs.parameters)

\* the statement that save compiles
saveQuery(table, record) ==
  LET vs == mapParam(values(record), <<>>)
      columns == keys(record)
      excluded == [i \in 1..Len(columns) |->
                     <<columns[i], " ", "=", " ", "EXCLUDED", ".", columns[i]>>]
  IN  Statement(<<"INSERT", " ", "INTO", " ", table, " ", "(">>
                  \o join([i \in 1..Len(columns) |-> <<columns[i]>>], <<",", " ">>)
                  \o <<")", " ", "VALUES", " ", "(">>
                  \o join(vs.tokens, <<",", " ">>)
                  \o <<")", "\n", " ", " ", " ", " ", " ", " ",
                       "ON", " ", "CONFLICT", " ", "(", "id", ")", " ",
                       "DO", " ", "UPDATE", " ", "SET", " ">>
                  \o join(excluded, <<",", " ">>),
                vs.parameters)

\* String.prototype.localeCompare on the column names of the model: the
\* names in collation order
Collation == <<"a", "b", "id", "name">>
rank(s) == CHOOSE i \in 1..Len(Collation) : Collation[i] = s
localeCompare(x, y) ==
  IF rank(x) < rank(y) THEN -1 ELSE IF rank(x) > rank(y) THEN 1 ELSE 0

RECURSIVE insertSorted(_, _)
insertSorted(sorted, e) ==
  IF Len(sorted) = 0 THEN <<e>>
  ELSE IF localeCompare(e.key, sorted[1].key) < 0 THEN <<e>> \o sorted
  ELSE <<sorted[1]>> \o insertSorted(Tail(sorted), e)

\* the entries left in the order of the update map
sortEntries_insertionOrder(entries) == entries

RECURSIVE sortEntries(_)
\* entries.sort((a, b) => a[0].localeCompare(b[0])): a stable sort
sortEntries(entries) ==
  IF Len(entries) = 0 THEN <<>>
  ELSE insertSorted(sortEntries(SubSeq(entries, 1, Len(entries) - 1)),
                    entries[Len(entries)])

\* the statement that update compiles: the predicates are compiled first,
\* the SET entries after them, on the same binder
updateQuery(table, where, upd) ==
  LET m == mapPredicates(where, <<>>)
      sorted == sortEntries(upd)
      vs == mapParam(values(sorted), m.parameters)
      sets == [i \in 1..Len(sorted) |-> <<sorted[i].key, " ", "=", " ">> \o vs.tokens[i]]
  IN  IF m.threw THEN Thrown
      ELSE Statement(<<"UPDATE", " ", table, " ", "SET", " ">>
                       \o join(sets, <<",", " ">>) \o whereClause(m.predicates),
                     vs.parameters)

\* the statement that delete compiles
deleteQuery(table, where) ==
  LET m == mapPredicates(where, <<>>)
  IN  IF m.threw THEN Thrown
      ELSE Statement(<<"DELETE", " ", "FROM", " ", table>> \o whereClause(m.predicates),
                     m.parameters)

\* ---------------------------------------------------------------- stub pool
Whitespace == {" ", "\n", "\t"}

\* query.replace(/\s+/g, " "): of a run of whitespace only the last
\* character is kept, as a space
collapse(query) ==
  LET indexed == [i \in 1..Len(query) |-> [at |-> i, char |-> query[i]]]
      kept == SelectSeq(indexed,
                        LAMBDA e : \/ e.char \notin Whitespace
                                   \/ e.at = Len(query)
                                   \/ query[e.at + 1] \notin Whitespace)
  IN  [i \in 1..Len(kept) |-> IF kept[i].char \in Whitespace THEN " " ELSE kept[i].char]

\* String.prototype.trim
trim(s) ==
  LET inner == {i \in 1..Len(s) : s[i] \notin Whitespace}
  IN  IF inner = {} THEN <<>>
      ELSE SubSeq(s, CHOOSE i \in inner : \A j \in inner : i <= j,
                     CHOOSE i \in inner : \A j \in inner : i >= j)

normalizeQuery(query) == trim(collapse(query))

\* An optional argument or property: absent, or the given list
Absent == [present |-> FALSE, list |-> <<>>]
Present(list) == [present |-> TRUE, list |-> list]

\* JSON.stringify of one array element
stringifyElement(value) ==
  CASE value.t = "string" -> <<"\"">> \o value.v \o <<"\"">>
    [] value.t = "number" -> IF value.v = <<"NaN">> THEN <<"null">> ELSE value.v
    [] OTHER -> <<"null">>

\* JSON.stringify(params): undefined for an absent list
JSONstringify(params) ==
  IF params.present
  THEN [undef |-> FALSE,
        text |-> <<"[">>
                 \o join([i \in 1..Len(params.list) |-> stringifyElement(params.list[i])],
                         <<",">>)
                 \o <<"]">>]
  ELSE [undef |-> TRUE, text |-> <<>>]

StubbedQuery(query, params, result) == [query |-> query, params |-> params, result |-> result]
Result(rows) == [rows |-> rows]

\* PoolStub constructor: every registered query text is normalised
PoolStub(registered) ==
  [i \in 1..Len(registered) |->
     StubbedQuery(normalizeQuery(registered[i].query), registered[i].params,
                  registered[i].result)]

\* The index that this.#queries.find(...) stops at, 0 when it finds nothing
find(stubs, normalizedQuery, params) ==
  LET matching == {i \in 1..Len(stubs) :
                     /\ stubs[i].query = normalizedQuery
                     /\ JSONstringify(stubs[i].params) = JSONstringify(params)}
  IN  IF matching = {} THEN 0 ELSE CHOOSE i \in matching : \A j \in matching : i <= j

\* PoolStub.query
PoolStub_query(stubs, query, params) ==
  LET stub == find(stubs, normalizeQuery(query), params)
  IN  IF stub # 0
      THEN [stub |-> stub, result |-> stubs[stub].result]
      ELSE [stub |-> 0, result |-> Result(<<>>)]

\* ---------------------------------------------------------------- createNull
\* DatabaseClientNull: each section is the sequence of its [table, records]
\* entries; an optional record is [defined, row]
NoRecord == [defined |-> FALSE, row |-> <<>>]
Record(row) == [defined |-> TRUE, row |-> row]
optionalRows(record) == IF record.defined THEN <<record.row>> ELSE <<>>

RECURSIVE flatten(_)
\* the concatenation that flatMap and the spread operator perform
flatten(lists) == IF Len(lists) = 0 THEN <<>> ELSE lists[1] \o flatten(Tail(lists))

\* the stubbed query of a compiled statement
stubbed(statement, result) == StubbedQuery(statement.query, Present(statement.params), result)

\* DatabaseClient.createNull: the pool of the null client
createNull(config) ==
  PoolStub(
    flatten([t \in 1..Len(config.findById) |->
      [r \in 1..Len(config.findById[t].records) |->
         stubbed(findByIdQuery(config.findById[t].table,
                               Str(<<config.findById[t].records[r].id>>)),
                 Result(optionalRows(config.findById[t].records[r].record)))]])
    \o flatten([t \in 1..Len(config.findOne) |->
      [r \in 1..Len(config.findOne[t].records) |->
         stubbed(findOneQuery(config.findOne[t].table, config.findOne[t].records[r].where),
                 Result(optionalRows(config.findOne[t].records[r].result)))]])
    \o flatten([t \in 1..Len(config.search) |->
      [r \in 1..Len(config.search[t].records) |->
         stubbed(searchQuery(config.search[t].table, config.search[t].records[r].spec),
                 Result(config.search[t].records[r].result))]])
    \o flatten([t \in 1..Len(config.count) |->
      [r \in 1..Len(config.count[t].records) |->
         stubbed(countQuery(config.count[t].table, config.count[t].records[r].where),
                 Result(<<<<Entry("cnt", config.count[t].records[r].result)>>>>))]]))

\* ---------------------------------------------------------------- state
VARIABLES
  pc,         \* "idle" | "returned" for the client and the pool, "ready" | "done" for the compiler
  queries,    \* PoolStub.#queries
  call,       \* the public operation in progress and its arguments
  executed,   \* the statements handed to the pool by the call, in order
  found,      \* index of the registry entry the pool answered from, 0 for none
  result,     \* the QueryResult the pool returned
  returned,   \* what the call returned to its caller
  emitted,    \* the notifications emitted by the call, in order
  predicate,  \* the predicate handed to applyPredicate
  before,     \* the binder's parameter list before applyPredicate
  fragment,   \* the outcome of applyPredicate
  built,      \* what the null client or null repository was built from
  calls,      \* the calls in flight on a client over a connection provider
  earlier     \* the calls made earlier on the null repository of user-repo.ts

vars == <<pc, queries, call, executed, found, result, returned, emitted,
          predicate, before, fragment, built, calls,
                 earlier>>

\* ---------------------------------------------------------------- inputs
MaxFields == 2
MaxOrder == 2
MaxUpdateWhere == 1
MaxBefore == 1
MaxQueries == 2

Tables == {"t"}
Ids == {Str(<<"x">>), Str(<<"y">>)}
\* the columns of a record or an update map, each with the value it carries
Fields == {Entry("id", Str(<<"x">>)), Entry("a", Str(<<"y">>)), Entry("b", Null)}
Row1 == <<Entry("id", Str(<<"x">>)), Entry("name", Str(<<"x">>))>>
Row2 == <<Entry("id", Str(<<"y">>)), Entry("name", Null)>>

\* the predicates the client is called with
ClientPredicates ==
  {Eq("a", v) : v \in {Str(<<"x">>), Null}}
  \cup {In("a", vs) : vs \in SeqsUpTo({Str(<<"x">>)}, MaxValues)}
  \cup {NotIn("b", vs) : vs \in {<<>>, <<Str(<<"y">>)>>, <<Undefined>>}}
  \cup {ArrayContains("b", Str(<<"y">>))}
  \cup {TextSearch([i \in 1..n |-> IF i % 2 = 1 THEN "a" ELSE "b"], <<"x">>) :
           n \in 0..MaxColumns}
  \cup {Unsupported}
WhereLists == SeqsUpTo(ClientPredicates, MaxWhere)
UpdateWhereLists == SeqsUpTo(ClientPredicates, MaxUpdateWhere)

Orders ==
  {[i \in 1..n |-> IF i % 2 = 1 THEN [column |-> "b", direction |-> "desc"]
                                ELSE [column |-> "a", direction |-> "asc"]] :
     n \in 0..MaxOrder}
Offsets == {Undefined, Num(<<"0">>)}
Limits == {Undefined, Num(<<"0">>)}
SearchSpecs ==
  {[where |-> w, order |-> o, offset |-> f, limit |-> l] :
     w \in WhereLists, o \in Orders, f \in Offsets, l \in Limits}

distinctKeys(object) == \A i, j \in 1..Len(object) : object[i].key = object[j].key => i = j
Objects == {o \in SeqsUpTo(Fields, MaxFields) : distinctKeys(o)}

\* the configuration the null client is built from
NullConfigs ==
  {[findById |-> <<[table |-> "t",
                    records |-> <<[id |-> "x", record |-> Record(Row1)],
                                  [id |-> "y", record |-> NoRecord]>>]>>,
    findOne |-> <<[table |-> "t",
                   records |-> <<[where |-> <<Eq("a", Str(<<"x">>))>>,
                                  result |-> Record(Row2)],
                                 [where |-> <<>>, result |-> Record(Row1)]>>]>>,
    search |-> <<[table |-> "t",
                  records |-> <<[spec |-> [NoSpec EXCEPT !.where = <<In("a", <<Str(<<"x">>)>>)>>],
                                 result |-> <<Row1, Row2>>],
                                [spec |-> [NoSpec EXCEPT !.limit = Num(<<"0">>)],
                                 result |-> <<Row2>>]>>]>>,
    count |-> <<[table |-> "t",
                 records |-> <<[where |-> <<>>, result |-> Num(<<"2">>)],
                               [where |-> <<NotIn("b", <<Null>>)>>,
                                result |-> Num(<<"1">>)]>>]>>]}

\* ---------------------------------------------------------------- client
NoCall ==
  [op |-> "none", table |-> "", id |-> Null, where |-> <<>>, spec |-> NoSpec,
   record |-> <<>>, update |-> <<>>, name |-> ""]
NoReturn == [threw |-> FALSE, defined |-> FALSE, rows |-> <<>>, number |-> Null]
NoFragment == [text |-> <<>>, undef |-> FALSE, threw |-> FALSE, parameters |-> <<>>]
NoConfig == [of |-> "none", queries |-> <<>>, findById |-> <<>>, searchByName |-> <<>>]
Event(kind, c) == [kind |-> kind, record |-> c.record, where |-> c.where, update |-> c.update]

\* DatabaseClient.#query: hand the statement to the pool
query(text, params) == PoolStub_query(queries, text, Present(params))

\* rows[0]
first(rows) ==
  IF Len(rows) > 0 THEN [NoReturn EXCEPT !.defined = TRUE, !.rows = <<rows[1]>>]
  ELSE NoReturn

\* rows[0]?.cnt ?? 0
cnt(rows) ==
  LET present == IF Len(rows) > 0
                 THEN {i \in 1..Len(rows[1]) : rows[1][i].key = "cnt"} ELSE {}
      value == IF present = {} THEN Undefined ELSE rows[1][CHOOSE i \in present : TRUE].value
  IN  [NoReturn EXCEPT !.defined = TRUE,
                       !.number = IF value \in {Undefined, Null} THEN Num(<<"0">>) ELSE value]

\* A compilation error leaves the call before the pool is reached
threw(c) ==
  /\ pc = "idle"
  /\ pc' = "returned"
  /\ call' = c
  /\ executed' = <<>>
  /\ found' = 0
  /\ result' = Result(<<>>)
  /\ returned' = [NoReturn EXCEPT !.threw = TRUE]
  /\ emitted' = <<>>
  /\ UNCHANGED <<queries, predicate, before, fragment, built, calls,
                 earlier>>

\* The call handed statement to the pool, got answer, returned ret and
\* emitted events
completed(c, statement, answer, ret, events) ==
  /\ pc = "idle"
  /\ pc' = "returned"
  /\ call' = c
  /\ executed' = <<[query |-> statement.query, params |-> Present(statement.params)]>>
  /\ found' = answer.stub
  /\ result' = answer.result
  /\ returned' = ret
  /\ emitted' = events
  /\ UNCHANGED <<queries, predicate, before, fragment, built, calls,
                 earlier>>

findOneCall(c, table, where) ==
  LET statement == findOneQuery(table, where)
      answer == query(statement.query, statement.params)
  IN  IF statement.threw THEN threw(c)
      ELSE completed(c, statement, answer, first(answer.result.rows), <<>>)

findById ==
  /\ pc = "idle"
  /\ \E table \in Tables, id \in Ids :
       findOneCall([NoCall EXCEPT !.op = "findById", !.table = table, !.id = id],
                   table, <<Eq("id", id)>>)

findOne ==
  /\ pc = "idle"
  /\ \E table \in Tables, where \in WhereLists :
       findOneCall([NoCall EXCEPT !.op = "findOne", !.table = table, !.where = where],
                   table, where)

search ==
  /\ pc = "idle"
  /\ \E table \in Tables, spec \in SearchSpecs :
       LET c == [NoCall EXCEPT !.op = "search", !.table = table, !.spec = spec,
                               !.where = spec.where]
           statement == searchQuery(table, spec)
           answer == query(statement.query, statement.params)
       IN  IF statement.threw THEN threw(c)
           ELSE completed(c, statement, answer,
                          [NoReturn EXCEPT !.defined = TRUE, !.rows = answer.result.rows],
                          <<>>)

count ==
  /\ pc = "idle"
  /\ \E table \in Tables, where \in WhereLists :
       LET c == [NoCall EXCEPT !.op = "count", !.table = table, !.where = where]
           statement == countQuery(table, where)
           answer == query(statement.query, statement.params)
       IN  IF statement.threw THEN threw(c)
           ELSE completed(c, statement, answer, cnt(answer.result.rows), <<>>)

save ==
  /\ pc = "idle"
  /\ \E table \in Tables, record \in Objects :
       LET c == [NoCall EXCEPT !.op = "save", !.table = table, !.record = record]
           statement == saveQuery(table, record)
           answer == query(statement.query, statement.params)
       IN  completed(c, statement, answer, NoReturn, <<Event("saved", c)>>)

update ==
  /\ pc = "idle"
  /\ \E table \in Tables, where \in UpdateWhereLists, upd \in Objects :
       LET c == [NoCall EXCEPT !.op = "update", !.table = table, !.where = where,
                               !.update = upd]
           statement == updateQuery(table, where, upd)
           answer == query(statement.query, statement.params)
       IN  IF statement.threw THEN threw(c)
           ELSE completed(c, statement, answer, NoReturn, <<Event("updated", c)>>)

delete ==
  /\ pc = "idle"
  /\ \E table \in Tables, where \in WhereLists :
       LET c == [NoCall EXCEPT !.op = "delete", !.table = table, !.where = where]
           statement == deleteQuery(table, where)
           answer == query(statement.query, statement.params)
       IN  IF statement.threw THEN threw(c)
           ELSE completed(c, statement, answer, NoReturn, <<Event("deleted", c)>>)

\* The caller takes the outcome; the client keeps nothing of the call
Return ==
  /\ pc = "returned"
  /\ pc' = "idle"
  /\ call' = NoCall
  /\ executed' = <<>>
  /\ found' = 0
  /\ result' = Result(<<>>)
  /\ returned' = NoReturn
  /\ emitted' = <<>>
  /\ UNCHANGED <<queries, predicate, before, fragment, built, calls,
                 earlier>>

Init ==
  /\ pc = "idle"
  /\ \E config \in NullConfigs : queries = createNull(config)
  /\ call = NoCall
  /\ executed = <<>>
  /\ found = 0
  /\ result = Result(<<>>)
  /\ returned = NoReturn
  /\ emitted = <<>>
  /\ predicate = Unsupported
  /\ before = <<>>
  /\ fragment = NoFragment
  /\ built = NoConfig
  /\ calls = <<>>
  /\ earlier = <<>>

Next ==
  \/ findById
  \/ findOne
  \/ search
  \/ count
  \/ save
  \/ update
  \/ delete
  \/ Return

Spec == Init /\ [][Next]_vars

\* ---------------------------------------------------------------- predicate compiler alone
\* One applyPredicate call on a binder that already holds earlier values
applyPredicateCall ==
  /\ pc = "ready"
  /\ pc' = "done"
  /\ fragment' = applyPredicate(predicate, before)
  /\ UNCHANGED <<queries, call, executed, found, result, returned, emitted,
                 predicate, before, built, calls, earlier>>

InitPredicate ==
  /\ pc = "ready"
  /\ predicate \in Predicates
  /\ before \in SeqsUpTo(Values, MaxBefore)
  /\ fragment = NoFragment
  /\ queries = <<>>
  /\ call = NoCall
  /\ executed = <<>>
  /\ found = 0
  /\ result = Result(<<>>)
  /\ returned = NoReturn
  /\ emitted = <<>>
  /\ built = NoConfig
  /\ calls = <<>>
  /\ earlier = <<>>

NextPredicate == applyPredicateCall

SpecPredicate == InitPredicate /\ [][NextPredicate]_vars

\* ---------------------------------------------------------------- stub pool alone
MaxParams == 1

StubTexts ==
  {<<"q">>, <<" ", "q", "\n">>, <<"q", " ", "r">>, <<"q", "\n", "\t", "r">>, <<"q", "r">>}
StubValues == {Str(<<"1">>), Num(<<"1">>), Null, Undefined, Num(<<"NaN">>)}
StubParams == {Absent} \cup {Present(l) : l \in SeqsUpTo(StubValues, MaxParams)}

RegisteredTexts == {<<"q">>, <<"q", " ", "r">>, <<"q", "\n", " ", "r", " ">>}
RegisteredParams == {Present(<<>>), Present(<<Null>>), Present(<<Str(<<"1">>)>>)}
\* the i-th registered query answers with a row that names i
numbered(registered) ==
  [i \in 1..Len(registered) |->
     StubbedQuery(registered[i].query, registered[i].params,
                  Result(<<<<Entry("n", Num(<<ToString(i)>>))>>>>))]
Registries ==
  {numbered(r) :
     r \in SeqsUpTo({StubbedQuery(q, ps, Result(<<>>)) :
                       q \in RegisteredTexts, ps \in RegisteredParams}, MaxQueries)}

\* A caller hands text and params to PoolStub.query
poolQuery ==
  /\ pc = "idle"
  /\ \E text \in StubTexts, params \in StubParams :
       LET answer == PoolStub_query(queries, text, params)
       IN  /\ pc' = "returned"
           /\ call' = [NoCall EXCEPT !.op = "query"]
           /\ executed' = <<[query |-> text, params |-> params]>>
           /\ found' = answer.stub
           /\ result' = answer.result
           /\ returned' = [NoReturn EXCEPT !.defined = TRUE, !.rows = answer.result.rows]
           /\ emitted' = <<>>
           /\ UNCHANGED <<queries, predicate, before, fragment, built, calls,
                 earlier>>

InitStub ==
  /\ pc = "idle"
  /\ \E registered \in Registries : queries = PoolStub(registered)
  /\ call = NoCall
  /\ executed = <<>>
  /\ found = 0
  /\ result = Result(<<>>)
  /\ returned = NoReturn
  /\ emitted = <<>>
  /\ predicate = Unsupported
  /\ before = <<>>
  /\ fragment = NoFragment
  /\ built = NoConfig
  /\ calls = <<>>
  /\ earlier = <<>>

NextStub ==
  \/ poolQuery
  \/ Return

SpecStub == InitStub /\ [][NextStub]_vars

\* ---------------------------------------------------------------- null clients and repositories
User(id, name) == <<Entry("id", Str(<<id>>)), Entry("name", Str(name))>>
John == User("1", <<"John", " ", "Doe">>)
Jane == User("2", <<"Jane", " ", "Doe">>)
UserIds == {Str(<<"1">>), Str(<<"2">>)}
Names == {"doe", "x"}

\* Object.entries: the integer-like keys first, in ascending order, then the
\* other keys in insertion order
Digits == <<"0", "1", "2", "3", "4", "5", "6", "7", "8", "9">>
isIndex(key) == \E d \in 1..Len(Digits) : Digits[d] = key
indexOf(key) == CHOOSE d \in 1..Len(Digits) : Digits[d] = key
ObjectEntries(object) ==
  LET indexed == SelectSeq(object, LAMBDA e : isIndex(e.key))
      named == SelectSeq(object, LAMBDA e : ~isIndex(e.key))
      below(e) == {i \in 1..Len(indexed) : indexOf(indexed[i].key) < indexOf(e.key)}
  IN  [i \in 1..Len(indexed) |->
         indexed[CHOOSE j \in 1..Len(indexed) : Cardinality(below(indexed[j])) = i - 1]]
      \o named

Page(items, totalCount) == [items |-> items, totalCount |-> totalCount]
byName(name) == <<TextSearch(<<"name">>, <<name>>)>>
byNameSpec(name) ==
  [NoSpec EXCEPT !.where = byName(name),
                 !.order = <<[column |-> "id", direction |-> "asc"]>>]

\* the entries are registered for a table other than the one findById reads
UserRepository_createNull_otherTable(given) ==
  LET records == ObjectEntries(given.findById)
  IN    [findById |-> <<[table |-> "user",
                         records |-> [i \in 1..Len(records) |->
                                        [id |-> records[i].key,
                                         record |-> Record(records[i].value)]]]>>,
         findOne |-> <<>>, search |-> <<>>, count |-> <<>>]

\* UserRepository.createNull: what it hands to DatabaseClient.createNull
UserRepository_createNull(given) ==
  LET table == "users"
      records == ObjectEntries(given.findById)
      pages == ObjectEntries(given.searchByName)
  IN    [findById |-> <<[table |-> table,
                         records |-> [i \in 1..Len(records) |->
                                        [id |-> records[i].key,
                                         record |-> Record(records[i].value)]]]>>,
         findOne |-> <<>>,
         search |-> <<[table |-> table,
                       records |-> [i \in 1..Len(pages) |->
                                      [spec |-> byNameSpec(pages[i].key),
                                       result |-> pages[i].value.items]]]>>,
         count |-> <<[table |-> table,
                      records |-> [i \in 1..Len(pages) |->
                                     [where |-> byName(pages[i].key),
                                      result |-> pages[i].value.totalCount]]]>>]

\* The argument of DatabaseClient.createNull that holds a list of entries
\* under the key queries; createNull destructures it for findById, findOne,
\* search and count only
DatabaseClient_createNull(given) ==
  [queries |-> given.queries, findById |-> <<>>, findOne |-> <<>>,
   search |-> <<>>, count |-> <<>>]

ByIdText ==
  <<"SELECT", " ", "*", " ", "FROM", " ", "users", " ", "WHERE", " ", "id", " ", "=", " ",
    "$", "1", " ", "LIMIT", " ", "1">>
ListedEntries ==
  {StubbedQuery(text, Present(<<id>>), Result(rows)) :
     text \in {ByIdText, <<"\n", " ">> \o ByIdText},
     id \in UserIds, rows \in {<<John>>, <<>>}}
ClientConfigs ==
  {[NoConfig EXCEPT !.of = "client", !.queries = qs] :
     qs \in SeqsUpTo(ListedEntries, MaxQueries)}
FindByIdMaps ==
  {<<>>, <<Entry("1", John)>>, <<Entry("2", Jane)>>,
   <<Entry("1", John), Entry("2", Jane)>>, <<Entry("2", Jane), Entry("1", John)>>}
SearchByNameMaps ==
  {<<>>, <<Entry("doe", Page(<<John, Jane>>, Num(<<"2">>)))>>,
   <<Entry("doe", Page(<<>>, Num(<<"0">>)))>>}
RepositoryConfigs ==
  {[NoConfig EXCEPT !.of = "repository", !.findById = m, !.searchByName = p] :
     m \in FindByIdMaps, p \in SearchByNameMaps}

\* DatabaseClient.findById on the client built from a list of entries
clientFindById ==
  /\ pc = "idle"
  /\ built.of = "client"
  /\ \E id \in UserIds :
       findOneCall([NoCall EXCEPT !.op = "findById", !.table = "users", !.id = id],
                   "users", <<Eq("id", id)>>)

\* UserRepository.findById
repositoryFindById ==
  /\ pc = "idle"
  /\ built.of = "repository"
  /\ \E id \in UserIds :
       findOneCall([NoCall EXCEPT !.op = "UserRepository.findById", !.table = "users",
                                  !.id = id],
                   "users", <<Eq("id", id)>>)

\* UserService.getUserById
getUserById ==
  /\ pc = "idle"
  /\ built.of = "repository"
  /\ \E id \in UserIds :
       findOneCall([NoCall EXCEPT !.op = "getUserById", !.table = "users", !.id = id],
                   "users", <<Eq("id", id)>>)

\* UserRepository.searchByName: search and count are started together, the
\* search statement reaches the pool first
searchByName ==
  /\ pc = "idle"
  /\ built.of = "repository"
  /\ \E name \in Names :
       LET searched == searchQuery("users", byNameSpec(name))
           counted == countQuery("users", <<>>)
           items == query(searched.query, searched.params)
           totalCount == query(counted.query, counted.params)
       IN  /\ pc' = "returned"
           /\ call' = [NoCall EXCEPT !.op = "searchByName", !.table = "users",
                                     !.name = name]
           /\ executed' = <<[query |-> searched.query, params |-> Present(searched.params)],
                            [query |-> counted.query, params |-> Present(counted.params)]>>
           /\ found' = items.stub
           /\ result' = items.result
           /\ returned' = [NoReturn EXCEPT !.defined = TRUE, !.rows = items.result.rows,
                                           !.number = cnt(totalCount.result.rows).number]
           /\ emitted' = <<>>
           /\ UNCHANGED <<queries, predicate, before, fragment, built, calls,
                 earlier>>

InitNull ==
  /\ pc = "idle"
  /\ built \in ClientConfigs \cup RepositoryConfigs
  /\ queries = createNull(IF built.of = "client" THEN DatabaseClient_createNull(built)
                          ELSE UserRepository_createNull(built))
  /\ call = NoCall
  /\ executed = <<>>
  /\ found = 0
  /\ result = Result(<<>>)
  /\ returned = NoReturn
  /\ emitted = <<>>
  /\ predicate = Unsupported
  /\ before = <<>>
  /\ fragment = NoFragment
  /\ calls = <<>>
  /\ earlier = <<>>

NextNull ==
  \/ clientFindById
  \/ repositoryFindById
  \/ getUserById
  \/ searchByName
  \/ Return

SpecNull == InitNull /\ [][NextNull]_vars

\* ---------------------------------------------------------------- calls on a connection provider
\* A client over an arbitrary DatabasePool. A call runs up to its await of
\* pool.query in one step, the pool resolves or rejects the pending query,
\* and the call continues after the await.
MaxCalls == 2
Slots == 1..MaxCalls

AnswerRows == {<<Row1>>}
Errors == {"ECONNRESET"}
NoAnswer == [failed |-> FALSE, rows |-> <<>>, error |-> ""]
NoOutcome == [kind |-> "none", value |-> NoReturn, error |-> ""]
NoStatement == [query |-> <<>>, params |-> Absent]
NoInvocation ==
  [phase |-> "free", args |-> NoCall, statement |-> NoStatement, executions |-> 0,
   answer |-> NoAnswer, outcome |-> NoOutcome, emitted |-> <<>>, history |-> <<>>]

clientVars == <<pc, queries, call, executed, found, result, returned, emitted,
                predicate, before, fragment, built, earlier>>

\* what the call returns from the rows of a resolved query
valueOf(c, rows) ==
  CASE c.op \in {"findById", "findOne"} -> first(rows)
    [] c.op = "search" -> [NoReturn EXCEPT !.defined = TRUE, !.rows = rows]
    [] c.op = "count" -> cnt(rows)
    [] OTHER -> NoReturn

\* the notification carries the first row the pool returned
emits_fromAnswer(c, rows) ==
  CASE c.op = "save" -> <<Event("saved", [NoCall EXCEPT !.record = rows[1]])>>
    [] c.op = "update" -> <<Event("updated", [NoCall EXCEPT !.where = c.where,
                                                            !.update = c.update])>>
    [] c.op = "delete" -> <<Event("deleted", [NoCall EXCEPT !.where = c.where])>>
    [] OTHER -> <<>>

\* this.emit(...) after the awaited query of save, update and delete
emits(c, rows) ==
  CASE c.op = "save" -> <<Event("saved", [NoCall EXCEPT !.record = c.record])>>
    [] c.op = "update" -> <<Event("updated", [NoCall EXCEPT !.where = c.where,
                                                            !.update = c.update])>>
    [] c.op = "delete" -> <<Event("deleted", [NoCall EXCEPT !.where = c.where])>>
    [] OTHER -> <<>>

\* the parameters of the calls in flight are on the binder of the call
begin_sharedBinder(slot, c, statement) ==
  LET shared == flatten([other \in Slots |->
                           IF calls[other].phase \in {"awaiting", "answered"}
                           THEN calls[other].statement.params.list ELSE <<>>])
  IN  /\ calls[slot].phase = "free"
      /\ calls' = [calls EXCEPT ![slot] =
                     IF statement.threw
                     THEN [NoInvocation EXCEPT !.phase = "settled", !.args = c,
                                               !.outcome.kind = "threw",
                                               !.history = <<"throw">>]
                     ELSE [NoInvocation EXCEPT !.phase = "awaiting", !.args = c,
                                               !.statement = [query |-> statement.query,
                                                              params |-> Present(shared \o statement.params)],
                                               !.executions = 1,
                                               !.history = <<"execute">>]]
      /\ UNCHANGED clientVars

\* the call runs to its await: it has compiled statement on a binder of its
\* own, and unless the compilation threw it hands the statement to pool.query
begin(slot, c, statement) ==
  /\ calls[slot].phase = "free"
  /\ calls' = [calls EXCEPT ![slot] =
                 IF statement.threw
                 THEN [NoInvocation EXCEPT !.phase = "settled", !.args = c,
                                           !.outcome.kind = "threw",
                                           !.history = <<"throw">>]
                 ELSE [NoInvocation EXCEPT !.phase = "awaiting", !.args = c,
                                           !.statement = [query |-> statement.query,
                                                          params |-> Present(statement.params)],
                                           !.executions = 1,
                                           !.history = <<"execute">>]]
  /\ UNCHANGED clientVars

CallWheres == {<<Eq("a", Str(<<"x">>))>>, <<Unsupported>>}

beginFindById ==
  /\ pc = "calls"
  /\ \E slot \in Slots :
       begin(slot, [NoCall EXCEPT !.op = "findById", !.table = "t", !.id = Str(<<"x">>)],
             findByIdQuery("t", Str(<<"x">>)))

beginFindOne ==
  /\ pc = "calls"
  /\ \E slot \in Slots :
       begin(slot, [NoCall EXCEPT !.op = "findOne", !.table = "t",
                                  !.where = <<In("a", <<Str(<<"y">>)>>)>>],
             findOneQuery("t", <<In("a", <<Str(<<"y">>)>>)>>))

beginSearch ==
  /\ pc = "calls"
  /\ \E slot \in Slots :
       begin(slot, [NoCall EXCEPT !.op = "search", !.table = "t",
                                  !.where = byName("doe"), !.spec = byNameSpec("doe")],
             searchQuery("t", byNameSpec("doe")))

beginCount ==
  /\ pc = "calls"
  /\ \E slot \in Slots :
       begin(slot, [NoCall EXCEPT !.op = "count", !.table = "t"], countQuery("t", <<>>))

beginSave ==
  /\ pc = "calls"
  /\ \E slot \in Slots :
       begin(slot, [NoCall EXCEPT !.op = "save", !.table = "t", !.record = Row2],
             saveQuery("t", Row2))

beginUpdate ==
  /\ pc = "calls"
  /\ \E slot \in Slots, where \in CallWheres :
       begin(slot, [NoCall EXCEPT !.op = "update", !.table = "t", !.where = where,
                                  !.update = <<Entry("b", Null)>>],
             updateQuery("t", where, <<Entry("b", Null)>>))

beginDelete ==
  /\ pc = "calls"
  /\ \E slot \in Slots, where \in CallWheres :
       begin(slot, [NoCall EXCEPT !.op = "delete", !.table = "t", !.where = where],
             deleteQuery("t", where))

\* the pool resolves a pending query
resolve ==
  /\ pc = "calls"
  /\ \E slot \in Slots, rows \in AnswerRows :
       /\ calls[slot].phase = "awaiting"
       /\ calls' = [calls EXCEPT ![slot].phase = "answered",
                                 ![slot].answer = [NoAnswer EXCEPT !.rows = rows],
                                 ![slot].history = Append(@, "resolved")]
       /\ UNCHANGED clientVars

\* the pool rejects a pending query
reject ==
  /\ pc = "calls"
  /\ \E slot \in Slots, error \in Errors :
       /\ calls[slot].phase = "awaiting"
       /\ calls' = [calls EXCEPT ![slot].phase = "answered",
                                 ![slot].answer = [NoAnswer EXCEPT !.failed = TRUE,
                                                                   !.error = error],
                                 ![slot].history = Append(@, "rejected")]
       /\ UNCHANGED clientVars

\* emits the notifications while the write has failed
resume_emitsOnFailure(slot) ==
  LET c == calls[slot].args
      answer == calls[slot].answer
      events == emits(c, answer.rows)
  IN  [calls[slot] EXCEPT
         !.phase = "settled",
         !.outcome = IF answer.failed
                     THEN [NoOutcome EXCEPT !.kind = "failed", !.error = answer.error]
                     ELSE [NoOutcome EXCEPT !.kind = "returned",
                                            !.value = valueOf(c, answer.rows)],
         !.emitted = events,
         !.history = @ \o [i \in 1..Len(events) |-> "emit"]
                       \o <<IF answer.failed THEN "throw" ELSE "return">>]

\* the code of the call after its await: a rejection leaves the call at
\* once, a resolution is followed by the emit and the return
resume(slot) ==
  LET c == calls[slot].args
      answer == calls[slot].answer
      events == emits(c, answer.rows)
  IN  IF answer.failed
      THEN [calls[slot] EXCEPT
              !.phase = "settled",
              !.outcome = [NoOutcome EXCEPT !.kind = "failed", !.error = answer.error],
              !.history = Append(@, "throw")]
      ELSE [calls[slot] EXCEPT
              !.phase = "settled",
              !.outcome = [NoOutcome EXCEPT !.kind = "returned",
                                            !.value = valueOf(c, answer.rows)],
              !.emitted = events,
              !.history = @ \o [i \in 1..Len(events) |-> "emit"] \o <<"return">>]

continue ==
  /\ pc = "calls"
  /\ \E slot \in Slots :
       /\ calls[slot].phase = "answered"
       /\ calls' = [calls EXCEPT ![slot] = resume(slot)]
       /\ UNCHANGED clientVars

\* the caller takes the outcome of a settled call
settle ==
  /\ pc = "calls"
  /\ \E slot \in Slots :
       /\ calls[slot].phase = "settled"
       /\ calls' = [calls EXCEPT ![slot] = NoInvocation]
       /\ UNCHANGED clientVars

InitCalls ==
  /\ calls = [slot \in Slots |-> NoInvocation]
  /\ pc = "calls"
  /\ queries = <<>>
  /\ call = NoCall
  /\ executed = <<>>
  /\ found = 0
  /\ result = Result(<<>>)
  /\ returned = NoReturn
  /\ emitted = <<>>
  /\ predicate = Unsupported
  /\ before = <<>>
  /\ fragment = NoFragment
  /\ built = NoConfig
  /\ earlier = <<>>

NextCalls ==
  \/ beginFindById
  \/ beginFindOne
  \/ beginSearch
  \/ beginCount
  \/ beginSave
  \/ beginUpdate
  \/ beginDelete
  \/ resolve
  \/ reject
  \/ continue
  \/ settle

SpecCalls == InitCalls /\ [][NextCalls]_vars

\* ---------------------------------------------------------------- user-repo.ts on createSqlStub
MaxEarlier == 3

\* String(value)
String(value) ==
  CASE value.t \in {"string", "number"} -> value.v
    [] value.t = "null" -> <<"null">>
    [] OTHER -> <<"undefined">>

\* sql("users"): the helper call of the stub returns JSON.stringify(first)
sqlHelper(identifier) == Str(stringifyElement(identifier))

\* PendingQuery.toString: the template strings with the parameters between
\* them
PendingQuery_toString(template, parameters) ==
  flatten([i \in 1..Len(template) |->
             template[i] \o (IF i <= Len(parameters) THEN String(parameters[i]) ELSE <<>>)])

\* the resolver that UserRepository.createNull hands to createSqlStub
resolver(text) == <<>>

\* awaiting a PendingQuery: then hands the resolver's promise to onfulfilled
PendingQuery_then(template, parameters) == resolver(PendingQuery_toString(template, parameters))

\* a call on the null repository: the tagged template is awaited and ret is
\* returned
userRepoCall(c, template, parameters, ret) ==
  /\ Len(earlier) < MaxEarlier
  /\ pc' = "returned"
  /\ call' = c
  /\ executed' = <<[query |-> PendingQuery_toString(template, parameters),
                    params |-> Absent]>>
  /\ result' = Result(PendingQuery_then(template, parameters))
  /\ returned' = ret
  /\ UNCHANGED <<queries, found, emitted, predicate, before, fragment, built, calls,
                 earlier>>

userRepoFindById ==
  /\ pc = "idle"
  /\ \E id \in UserIds :
       LET template == <<<<"select", " ", "id", ",", " ", "name", " ", "from", " ">>,
                         <<" ", "where", " ", "id", " ", "=", " ">>,
                         <<" ", "limit", " ", "1">>>>
           parameters == <<sqlHelper(Str(<<"users">>)), id>>
       IN  userRepoCall([NoCall EXCEPT !.op = "findById", !.id = id], template, parameters,
                        first(PendingQuery_then(template, parameters)))

userRepoFindByName ==
  /\ pc = "idle"
  /\ \E name \in Names :
       LET template == <<<<"select", " ", "id", ",", " ", "name", " ", "from", " ">>,
                         <<" ", "where", " ", "name", " ", "ilike", " ">>,
                         <<" ", "order", " ", "by", " ", "id">>>>
           parameters == <<sqlHelper(Str(<<"users">>)), Str(<<"%", name, "%">>)>>
       IN  userRepoCall([NoCall EXCEPT !.op = "findByName", !.name = name], template,
                        parameters,
                        [NoReturn EXCEPT !.defined = TRUE,
                                         !.rows = PendingQuery_then(template, parameters)])

userRepoSave ==
  /\ pc = "idle"
  /\ \E saved \in {John, Jane} :
       LET template == <<<<"insert", " ", "into", " ">>,
                         <<" ", "(", "id", ",", " ", "name", ")", " ", "values", " ", "(">>,
                         <<",", " ">>,
                         <<")", " ", "on", " ", "conflict", " ", "(", "id", ")", " ", "do",
                           " ", "update", " ", "set", " ", "name", " ", "=", " ">>,
                         <<>>>>
           parameters == <<sqlHelper(Str(<<"users">>)), saved[1].value, saved[2].value,
                           saved[2].value>>
       IN  userRepoCall([NoCall EXCEPT !.op = "save", !.record = saved], template, parameters,
                        NoReturn)

userRepoDeleteById ==
  /\ pc = "idle"
  /\ \E id \in UserIds :
       LET template == <<<<"delete", " ", "from", " ">>,
                         <<" ", "where", " ", "id", " ", "=", " ">>,
                         <<>>>>
           parameters == <<sqlHelper(Str(<<"users">>)), id>>
       IN  userRepoCall([NoCall EXCEPT !.op = "deleteById", !.id = id], template, parameters,
                        NoReturn)

\* the caller takes the outcome and goes on to its next call
userRepoReturn ==
  /\ pc = "returned"
  /\ pc' = "idle"
  /\ earlier' = Append(earlier, call)
  /\ call' = NoCall
  /\ executed' = <<>>
  /\ result' = Result(<<>>)
  /\ returned' = NoReturn
  /\ UNCHANGED <<queries, found, emitted, predicate, before, fragment, built, calls>>

InitUserRepo ==
  /\ pc = "idle"
  /\ earlier = <<>>
  /\ queries = <<>>
  /\ call = NoCall
  /\ executed = <<>>
  /\ found = 0
  /\ result = Result(<<>>)
  /\ returned = NoReturn
  /\ emitted = <<>>
  /\ predicate = Unsupported
  /\ before = <<>>
  /\ fragment = NoFragment
  /\ built = NoConfig
  /\ calls = <<>>

NextUserRepo ==
  \/ userRepoFindById
  \/ userRepoFindByName
  \/ userRepoSave
  \/ userRepoDeleteById
  \/ userRepoReturn

SpecUserRepo == InitUserRepo /\ [][NextUserRepo]_vars

\* ================================================================ properties
placeholder(k) == <<"$", ToString(k)>>
placeholderPositions(text) == {i \in 1..(Len(text) - 1) : text[i] = "$"}
placeholderIndex(text, i) == CHOOSE k \in 1..Len(text) : ToString(k) = text[i + 1]
placeholderIndices(text) == {placeholderIndex(text, i) : i \in placeholderPositions(text)}
firstOccurrence(text, k) ==
  CHOOSE i \in placeholderPositions(text) :
    /\ placeholderIndex(text, i) = k
    /\ \A j \in placeholderPositions(text) : placeholderIndex(text, j) = k => i <= j
\* the values a predicate of the five kinds hands to the binder, in order
boundValues(p) ==
  CASE p.kind = "eq" -> IF p.value = Null THEN <<>> ELSE <<p.value>>
    [] p.kind \in {"in", "notIn"} -> p.values
    [] p.kind = "arrayContains" -> <<p.value>>
    [] p.kind = "textSearch" -> <<Str(<<"%">> \o p.value.v \o <<"%">>)>>
    [] OTHER -> <<>>
RECURSIVE boundBy(_)
boundBy(where) == IF Len(where) = 0 THEN <<>> ELSE boundValues(where[1]) \o boundBy(Tail(where))
\* sub occurs in text starting at position i
occursAt(text, sub, i) == i + Len(sub) - 1 <= Len(text) /\ SubSeq(text, i, i + Len(sub) - 1) = sub
stubAnswered == pc = "returned" /\ call.op = "query"
valueWiseMatches ==
  {i \in 1..Len(queries) :
     /\ queries[i].query = normalizeQuery(executed[1].query)
     /\ queries[i].params = executed[1].params}

\* C1: every answer of PoolStub.query is the canned result of the first
\* registry entry whose normalised text equals the normalised incoming text
\* and whose parameter list is value-wise equal to the incoming one; an entry
\* that differs in text or in any parameter value is never the one returned.
C1_FirstValueWiseMatchWins ==
  stubAnswered =>
    /\ found # 0 => /\ found \in valueWiseMatches
                    /\ \A j \in valueWiseMatches : found <= j
                    /\ result = queries[found].result
    /\ valueWiseMatches # {} => found # 0

\* C2: in every compiled statement the placeholders appear left to right in
\* binding order (the first $i before the first $j for i < j) and every $i
\* refers to entry i of the parameter list.
C2_PlaceholdersInBindingOrder ==
  (pc = "returned" /\ call.op # "query" /\ executed # <<>>) =>
    LET text == executed[1].query
        indices == placeholderIndices(text)
    IN  /\ \A k \in indices : k \in 1..Len(executed[1].params.list)
        /\ \A i, j \in indices : i < j => firstOccurrence(text, i) < firstOccurrence(text, j)

\* C3: for a predicate of the five kinds, the number of placeholders of the
\* returned fragment equals the number of values the call appended to the
\* binder; Equals with null appends nothing and has no placeholder.
C3_PlaceholdersMatchAppendedValues ==
  (pc = "done" /\ predicate.kind # "unsupported") =>
    /\ Cardinality(placeholderIndices(fragment.text))
         = Len(fragment.parameters) - Len(before)
    /\ (predicate.kind = "eq" /\ predicate.value = Null) =>
         /\ fragment.parameters = before
         /\ placeholderPositions(fragment.text) = {}

\* C4: Equals(col, null) compiles to `col IS NULL` and leaves the parameter
\* list alone; Equals(col, v) with any other v compiles to `col = $k`, k the
\* new length of the parameter list, and appends exactly v.
C4_EqualsFragment ==
  (pc = "done" /\ predicate.kind = "eq") =>
    /\ ~fragment.threw /\ ~fragment.undef
    /\ IF predicate.value = Null
       THEN /\ fragment.text = <<predicate.column, " ", "IS", " ", "NULL">>
            /\ fragment.parameters = before
       ELSE /\ fragment.text = <<predicate.column, " ", "=", " ">>
                                 \o placeholder(Len(fragment.parameters))
            /\ fragment.parameters = Append(before, predicate.value)

C4_Witness ==
  /\ pc = "done"
  /\ predicate.kind = "eq"
  /\ predicate.value = Undefined
  /\ Len(before) = 1
  /\ fragment.text = <<predicate.column, " ", "=", " ", "$", "2">>

\* C5: TextSearch(cols, v) binds once, the value %v%; every column's
\* `col ILIKE $k` uses that one index k; the conditions are OR-joined in
\* column order, in parentheses exactly when there are two or more columns.
C5_TextSearchFragment ==
  (pc = "done" /\ predicate.kind = "textSearch") =>
    LET n == Len(predicate.columns)
        k == Len(before) + 1
        text == fragment.text
        inner == IF n > 1 THEN SubSeq(text, 2, Len(text) - 1) ELSE text
    IN  /\ fragment.parameters
             = Append(before, Str(<<"%">> \o predicate.value.v \o <<"%">>))
        /\ n >= 1 =>
             /\ ~fragment.undef /\ ~fragment.threw
             /\ n > 1 <=> (text[1] = "(" /\ text[Len(text)] = ")")
             /\ Len(inner) = 9 * n - 3
             /\ \A i \in 1..n :
                  occursAt(inner, <<predicate.columns[i], " ", "ILIKE", " ">> \o placeholder(k),
                           9 * (i - 1) + 1)
             /\ \A i \in 1..(n - 1) : occursAt(inner, <<" ", "OR", " ">>, 9 * i - 2)

C5_Witness ==
  /\ pc = "done"
  /\ predicate.kind = "textSearch"
  /\ predicate.columns = <<"a", "b">>
  /\ Len(before) = 1
  /\ fragment.text = <<"(", "a", " ", "ILIKE", " ", "$", "2", " ", "OR", " ",
                       "b", " ", "ILIKE", " ", "$", "2", ")">>

compiled == pc = "returned" /\ call.op # "query" /\ ~returned.threw
statementText == executed[1].query
statementParams == executed[1].params.list
tokenPositions(text, token) == {i \in 1..Len(text) : text[i] = token}
\* the SQL of an In or NotIn predicate whose first placeholder is $(k + 1)
membership(p, k) ==
  <<p.column, " ">> \o (IF p.kind = "in" THEN <<"IN">> ELSE <<"NOT", " ", "IN">>)
    \o <<" ", "(">>
    \o join([j \in 1..Len(p.values) |-> placeholder(k + j)], <<",", " ">>)
    \o <<")">>

\* C6: In / NotIn compile to `col IN (p1, ..., pn)` / `col NOT IN (...)` with
\* one fresh placeholder per element, in element order and with consecutive
\* indices, duplicates included; with no element the predicate stays in the
\* WHERE clause as `col IN ()` / `col NOT IN ()`.
C6_MembershipFragment ==
  (compiled /\ call.op \in {"findOne", "search", "count", "update", "delete"}) =>
    LET memberships == {i \in 1..Len(call.where) : call.where[i].kind \in {"in", "notIn"}}
    IN  /\ Cardinality(tokenPositions(statementText, "IN")) = Cardinality(memberships)
        /\ \A i \in memberships :
             LET p == call.where[i]
                 k == Len(boundBy(SubSeq(call.where, 1, i - 1)))
             IN  /\ \E at \in 1..Len(statementText) :
                       /\ occursAt(statementText, membership(p, k), at)
                       /\ \E w \in tokenPositions(statementText, "WHERE") : w < at
                 /\ SubSeq(statementParams, k + 1, k + Len(p.values)) = p.values

C6_Witness ==
  /\ compiled
  /\ call.op = "search"
  /\ call.where = <<In("a", <<Str(<<"x">>), Str(<<"x">>)>>), NotIn("b", <<>>)>>
  /\ call.spec.order = <<>> /\ call.spec.offset = Undefined /\ call.spec.limit = Undefined
  /\ statementText = <<"SELECT", " ", "*", " ", "FROM", " ", "t", " ", "WHERE", " ",
                       "a", " ", "IN", " ", "(", "$", "1", ",", " ", "$", "2", ")",
                       " ", "AND", " ", "b", " ", "NOT", " ", "IN", " ", "(", ")">>

permutations(object) ==
  LET n == Len(object)
  IN  {[i \in 1..n |-> object[f[i]]] :
         f \in {g \in [1..n -> 1..n] : \A i, j \in 1..n : g[i] = g[j] => i = j}}

\* C7: the SET clause of update lists the columns in lexicographic order
\* whatever the order of the update map: every reordering of the map compiles
\* to the same text and the same parameter list.
C7_UpdateSetOrder ==
  (compiled /\ call.op = "update") =>
    LET n == Len(call.update)
        column(i) == statementText[7 + 8 * (i - 1)]
        slot(i) == placeholderIndex(statementText, 11 + 8 * (i - 1))
    IN  /\ \A u \in permutations(call.update) :
             /\ updateQuery(call.table, call.where, u).query = statementText
             /\ updateQuery(call.table, call.where, u).params = statementParams
        /\ {column(i) : i \in 1..n} = {call.update[i].key : i \in 1..n}
        /\ \A i, j \in 1..n : i < j => localeCompare(column(i), column(j)) < 0
        /\ \A i \in 1..n : Entry(column(i), statementParams[slot(i)]) \in
                             {call.update[j] : j \in 1..n}

C7_Witness ==
  /\ compiled
  /\ call.op = "update"
  /\ call.update = <<Entry("b", Null), Entry("a", Str(<<"y">>))>>
  /\ call.where = <<Eq("a", Str(<<"x">>))>>
  /\ statementText = <<"UPDATE", " ", "t", " ", "SET", " ", "a", " ", "=", " ", "$", "2",
                       ",", " ", "b", " ", "=", " ", "$", "3",
                       " ", "WHERE", " ", "a", " ", "=", " ", "$", "1">>

\* C8: save lists the record's columns in the record's key order, the VALUES
\* list holds $1..$n in that order with parameter i the value of column i, and
\* the statement ends with ON CONFLICT (id) DO UPDATE SET holding
\* col = EXCLUDED.col for every column, id included, in the same order.
C8_SaveStatement ==
  (compiled /\ call.op = "save") =>
    LET n == Len(call.record)
        column(i) == call.record[i].key
    IN  /\ normalizeQuery(statementText) =
             normalizeQuery(
               <<"INSERT", " ", "INTO", " ", call.table, " ", "(">>
               \o join([i \in 1..n |-> <<column(i)>>], <<",", " ">>)
               \o <<")", " ", "VALUES", " ", "(">>
               \o join([i \in 1..n |-> placeholder(i)], <<",", " ">>)
               \o <<")", " ", "ON", " ", "CONFLICT", " ", "(", "id", ")", " ",
                    "DO", " ", "UPDATE", " ", "SET", " ">>
               \o join([i \in 1..n |-> <<column(i), " ", "=", " ", "EXCLUDED", ".", column(i)>>],
                       <<",", " ">>))
        /\ statementParams = [i \in 1..n |-> call.record[i].value]

C8_Witness ==
  /\ compiled
  /\ call.op = "save"
  /\ call.record = <<Entry("b", Null), Entry("id", Str(<<"x">>))>>
  /\ statementParams = <<Null, Str(<<"x">>)>>
  /\ emitted # <<>>

definedValue(v) == IF v = Undefined THEN <<>> ELSE <<v>>
before_(text, a, b) ==
  \A i \in tokenPositions(text, a), j \in tokenPositions(text, b) : i < j

\* C9: search compiles SELECT * FROM <table>, then WHERE iff there are
\* predicates, ORDER BY iff there are orders, OFFSET and LIMIT iff defined; the
\* parameter list is the predicates' values, then offset, then limit, and the
\* placeholder indices used are exactly 1..n, n the length of that list.
C9_SearchStatement ==
  (compiled /\ call.op = "search") =>
    LET text == statementText
        spec == call.spec
    IN  /\ occursAt(text, <<"SELECT", " ", "*", " ", "FROM", " ", call.table>>, 1)
        /\ Cardinality(tokenPositions(text, "WHERE")) = IF spec.where # <<>> THEN 1 ELSE 0
        /\ Cardinality(tokenPositions(text, "ORDER")) = IF spec.order # <<>> THEN 1 ELSE 0
        /\ Cardinality(tokenPositions(text, "OFFSET")) = IF spec.offset # Undefined THEN 1 ELSE 0
        /\ Cardinality(tokenPositions(text, "LIMIT")) = IF spec.limit # Undefined THEN 1 ELSE 0
        /\ before_(text, "WHERE", "ORDER") /\ before_(text, "WHERE", "OFFSET")
        /\ before_(text, "WHERE", "LIMIT") /\ before_(text, "ORDER", "OFFSET")
        /\ before_(text, "ORDER", "LIMIT") /\ before_(text, "OFFSET", "LIMIT")
        /\ \A i \in 1..Len(spec.order) :
             \E at \in tokenPositions(text, "ORDER") :
               occursAt(text, <<spec.order[i].column, " ",
                                IF spec.order[i].direction = "asc" THEN "ASC" ELSE "DESC">>,
                        at + 4 + 5 * (i - 1))
        /\ statementParams = boundBy(spec.where) \o definedValue(spec.offset)
                               \o definedValue(spec.limit)
        /\ placeholderIndices(text) = 1..Len(statementParams)

\* C10: the statement of findOne / findById ends with the literal LIMIT 1, its
\* parameter list holds only the values bound by the predicates (for findById
\* the id alone), and the call returns the first row or an absent value.
C10_FindOneLimit ==
  (compiled /\ call.op \in {"findOne", "findById"}) =>
    /\ occursAt(statementText, <<" ", "LIMIT", " ", "1">>, Len(statementText) - 3)
    /\ Cardinality(tokenPositions(statementText, "LIMIT")) = 1
    /\ statementParams = IF call.op = "findById" THEN <<call.id>> ELSE boundBy(call.where)
    /\ returned.defined <=> Len(result.rows) > 0
    /\ returned.rows = IF Len(result.rows) > 0 THEN <<result.rows[1]>> ELSE <<>>

C10_Witness ==
  /\ compiled
  /\ call.op = "findOne"
  /\ call.where = <<Eq("a", Str(<<"x">>))>>
  /\ statementParams = <<Str(<<"x">>)>>
  /\ returned.defined
  /\ returned.rows = <<Row2>>

\* the registry entries whose normalised text and parameter values equal those
\* of the statement the call executed
unstubbed ==
  /\ pc = "returned"
  /\ call.op \in {"findById", "findOne", "search", "count"}
  /\ executed # <<>>
  /\ valueWiseMatches = {}

\* C11: when no registry entry matches the statement of a call, the pool
\* returns an empty result set without failing: findById / findOne return
\* absent, search returns the empty list, count returns 0; the registry is the
\* one the client was built with.
C11_UnstubbedIsEmpty ==
  unstubbed =>
    /\ ~returned.threw
    /\ result = Result(<<>>)
    /\ call.op \in {"findById", "findOne"} => returned = NoReturn
    /\ call.op = "search" => returned = [NoReturn EXCEPT !.defined = TRUE]
    /\ call.op = "count" => returned = [NoReturn EXCEPT !.defined = TRUE,
                                                        !.number = Num(<<"0">>)]
    /\ \E config \in NullConfigs : queries = createNull(config)

\* the entries of the given list that equal the executed statement in
\* normalised text and in parameter values
listed ==
  {i \in 1..Len(built.queries) :
     /\ normalizeQuery(built.queries[i].query) = normalizeQuery(executed[1].query)
     /\ built.queries[i].params = executed[1].params}

\* C12: a null DatabaseClient built by createNull from a list of entries
\* {query, params, result} answers findById from the first entry that has the
\* statement's text and parameters, and returns absent without an error when
\* no entry has them.
C12_AnswersFromListedEntries ==
  (pc = "returned" /\ built.of = "client" /\ call.op = "findById") =>
    /\ ~returned.threw
    /\ returned = IF listed = {} THEN NoReturn
                  ELSE first(built.queries[CHOOSE i \in listed :
                                             \A j \in listed : i <= j].result.rows)

reads == {"findById", "findOne", "search", "count"}
writes == {"save", "update", "delete"}
succeeded(slot) == calls[slot].phase = "settled" /\ calls[slot].outcome.kind = "returned"
inFlight(slot) == calls[slot].phase \in {"awaiting", "answered"}

\* C13: a successful save, update or delete emits exactly one notification,
\* of kind saved, updated or deleted, after its query has resolved and before
\* it returns, carrying the input of the call; the reading calls emit none,
\* and nothing is emitted while a call has not continued after its await.
C13_NotifiedAfterExecute ==
  \A slot \in Slots :
    LET c == calls[slot].args
    IN  /\ calls[slot].phase # "settled" => calls[slot].emitted = <<>>
        /\ succeeded(slot) =>
              /\ c.op = "save" =>
                    calls[slot].emitted =
                      <<[kind |-> "saved", record |-> c.record, where |-> <<>>,
                         update |-> <<>>]>>
              /\ c.op = "update" =>
                    calls[slot].emitted =
                      <<[kind |-> "updated", record |-> <<>>, where |-> c.where,
                         update |-> c.update]>>
              /\ c.op = "delete" =>
                    calls[slot].emitted =
                      <<[kind |-> "deleted", record |-> <<>>, where |-> c.where,
                         update |-> <<>>]>>
              /\ c.op \in writes =>
                    calls[slot].history = <<"execute", "resolved", "emit", "return">>
              /\ c.op \in reads =>
                    /\ calls[slot].emitted = <<>>
                    /\ calls[slot].history = <<"execute", "resolved", "return">>

C13_Witness ==
  /\ succeeded(1)
  /\ calls[1].args.op = "save"
  /\ calls[1].answer.rows = <<Row1>>
  /\ calls[1].emitted = <<[kind |-> "saved", record |-> Row2, where |-> <<>>,
                           update |-> <<>>]>>
  /\ inFlight(2)

\* C14: when the pool rejects the query of a call, the call fails with the
\* same error, pool.query has been invoked exactly once for it, and no
\* notification is emitted.
C14_FailurePropagates ==
  \A slot \in Slots :
    /\ calls[slot].executions <= 1
    /\ (calls[slot].phase = "settled" /\ calls[slot].answer.failed) =>
          /\ calls[slot].outcome.kind = "failed"
          /\ calls[slot].outcome.error = calls[slot].answer.error
          /\ calls[slot].executions = 1
          /\ calls[slot].emitted = <<>>
          /\ calls[slot].history = <<"execute", "rejected", "throw">>

C14_Witness ==
  /\ calls[1].phase = "settled"
  /\ calls[1].args.op = "update"
  /\ calls[1].answer.failed
  /\ calls[1].outcome = [NoOutcome EXCEPT !.kind = "failed", !.error = "ECONNRESET"]
  /\ calls[1].emitted = <<>>

\* C17: a predicate list that holds a predicate of an unsupported shape makes
\* findOne, search, count, update and delete fail while compiling: nothing is
\* handed to the pool and nothing is emitted.
C17_UnsupportedPredicateFailsFast ==
  (/\ pc = "returned"
   /\ call.op \in {"findOne", "search", "count", "update", "delete"}
   /\ \E i \in 1..Len(call.where) : call.where[i].kind = "unsupported") =>
    /\ returned.threw
    /\ executed = <<>>
    /\ emitted = <<>>

C17_Witness ==
  /\ pc = "returned"
  /\ call.op = "delete"
  /\ call.where = <<Eq("a", Str(<<"x">>)), Unsupported>>
  /\ returned.threw
  /\ executed = <<>>

\* the statement a call compiles when it is the only call
alone(c) ==
  CASE c.op = "findById" -> findOneQuery(c.table, <<Eq("id", c.id)>>)
    [] c.op = "findOne" -> findOneQuery(c.table, c.where)
    [] c.op = "search" -> searchQuery(c.table, c.spec)
    [] c.op = "count" -> countQuery(c.table, c.where)
    [] c.op = "save" -> saveQuery(c.table, c.record)
    [] c.op = "update" -> updateQuery(c.table, c.where, c.update)
    [] c.op = "delete" -> deleteQuery(c.table, c.where)

heldUnder(map, key) == {i \in 1..Len(map) : map[i].key = key}
byIdReturned ==
  /\ pc = "returned"
  /\ built.of = "repository"
  /\ call.op \in {"UserRepository.findById", "getUserById"}

\* C16: on a null UserRepository built with the map M, findById(id) and
\* getUserById(id) return M[id] for a key of M and undefined for any other
\* id; the entry answering for a key of M holds exactly the statement that
\* findById compiled.
C16_FindByIdReturnsConfigured ==
  byIdReturned =>
    LET held == heldUnder(built.findById, call.id.v[1])
    IN  /\ ~returned.threw
        /\ held = {} => returned = NoReturn /\ found = 0
        /\ \A i \in held :
             /\ returned = [NoReturn EXCEPT !.defined = TRUE,
                                            !.rows = <<built.findById[i].value>>]
             /\ found # 0
             /\ queries[found].query = executed[1].query
             /\ queries[found].params = executed[1].params
             /\ executed[1].query = ByIdText
             /\ executed[1].params = Present(<<call.id>>)

C16_Witness ==
  /\ byIdReturned
  /\ call.op = "getUserById"
  /\ built.findById = <<Entry("2", Jane), Entry("1", John)>>
  /\ call.id = Str(<<"2">>)
  /\ returned = [NoReturn EXCEPT !.defined = TRUE, !.rows = <<Jane>>]

\* C18: on a null UserRepository built with searchByName: {n: P},
\* searchByName(n) returns the items and the totalCount of P.
C18_SearchByNameReturnsPage ==
  (pc = "returned" /\ built.of = "repository" /\ call.op = "searchByName") =>
    \A i \in heldUnder(built.searchByName, call.name) :
      /\ returned.rows = built.searchByName[i].value.items
      /\ returned.number = built.searchByName[i].value.totalCount

\* the user a store holds under id after the earlier calls: the record of
\* the last save of id that no deleteById of id follows
touching(id) ==
  {i \in 1..Len(earlier) :
     \/ earlier[i].op = "save" /\ earlier[i].record[1].value = id
     \/ earlier[i].op = "deleteById" /\ earlier[i].id = id}
lastTouching(id) == CHOOSE i \in touching(id) : \A j \in touching(id) : j <= i
holds(id) == touching(id) # {} /\ earlier[lastTouching(id)].op = "save"
lowerCase(word) ==
  CASE word = "Doe" -> "doe" [] word = "John" -> "john" [] word = "Jane" -> "jane"
    [] OTHER -> word
\* name ilike %part%, for a part that is one word of the name
ilike(name, part) == \E i \in 1..Len(name.v) : lowerCase(name.v[i]) = part
heldByName(part) ==
  LET ids == <<Str(<<"1">>), Str(<<"2">>)>>
      matching == SelectSeq(ids, LAMBDA id :
                    holds(id) /\ ilike(earlier[lastTouching(id)].record[2].value, part))
  IN  [i \in 1..Len(matching) |-> earlier[lastTouching(matching[i])].record]

\* C15: the null UserRepository of user-repo.ts behaves like a store:
\* findById(id) returns the user last saved under id unless it was deleted
\* since, and findByName returns the saved users whose name holds the given
\* part, ordered by id.
C15_BehavesLikeAStore ==
  (pc = "returned" /\ call.op \in {"findById", "findByName"}) =>
    /\ call.op = "findById" =>
          returned = IF holds(call.id)
                     THEN [NoReturn EXCEPT !.defined = TRUE,
                                           !.rows = <<earlier[lastTouching(call.id)].record>>]
                     ELSE NoReturn
    /\ call.op = "findByName" =>
          returned = [NoReturn EXCEPT !.defined = TRUE, !.rows = heldByName(call.name)]

====
